---------------------------- MODULE Spec2Model ----------------------------
(***************************************************************************)
(* The AMI volume-permissions post-processor: PostProcess parses the AMI   *)
(* id out of the artifact id, reads the image's launch permissions and its *)
(* block devices, and adds the launch permissions to the create-volume     *)
(* permissions of every snapshot the devices name.                         *)
(*                                                                         *)
(* A Go string is a tuple of one-character strings, so that matching,      *)
(* formatting and "contains" are computed on the characters. A Go pointer  *)
(* is a tuple of length 0 (nil) or 1 (the value pointed to).               *)
(***************************************************************************)
EXTENDS Integers, Sequences, FiniteSets, TLC

VARIABLES
    artifact,              \* the packer.Artifact handed to PostProcess
    awsLaunchPermissions,  \* EC2: the launch permissions of the image
    awsImages,             \* EC2: what DescribeImages returns for the image
    awsSnapshots,          \* EC2: snapshot id -> its create-volume permissions
    awsSnapshots0,         \* history: awsSnapshots when the run started
    pc,                    \* the statement PostProcess is at
    amiID,                 \* local of PostProcess (line 67)
    amiPermissions,        \* local of PostProcess (line 89)
    images,                \* imagesOutput.Images (line 95)
    deviceIdx,             \* position of the loops of lines 111-112
    foundSnapshotDevice,   \* local of fixSnapshotsForImages (line 110)
    calls,                 \* history: the EC2 requests issued, with outcome
    said,                  \* the lines given to ui.Say
    result                 \* what PostProcess returned: <<>> until it returns

vars ==
    <<artifact, awsLaunchPermissions, awsImages, awsSnapshots, awsSnapshots0,
      pc, amiID, amiPermissions, images, deviceIdx, foundSnapshotDevice,
      calls, said, result>>

---------------------------------------------------------------------------
(* Bounds of the model.                                                    *)

\* longest launch-permission list the image has
MaxPerms ==
    2
\* most block devices the image has
MaxDevices ==
    2
\* longest text put before and after a core of an artifact id
MaxAffix ==
    1

---------------------------------------------------------------------------
(* Strings.                                                                *)

\* format string of the parse error, up to its %s (line 69)
FmtNoAmiId ==
    <<"c","o","u","l","d"," ","n","o","t"," ","f","i","n","d"," ","A","M","I"," ","I","D"," ","i","n"," ","a","r","t","i","f","a","c","t"," ","i","d"," ","'">>
\* the rest of that format string
FmtQuote ==
    <<"'">>
\* format string of the configuration error (line 76)
FmtConfig ==
    <<"c","o","u","l","d"," ","n","o","t"," ","c","r","e","a","t","e"," ","A","W","S"," ","c","o","n","f","i","g",":"," ">>
\* format string of the launch-permission read error (line 87)
FmtLaunchPermission ==
    <<"c","o","u","l","d"," ","n","o","t"," ","g","e","t"," ","i","m","a","g","e"," ","l","a","u","n","c","h"," ","p","e","r","m","i","s","s","i","o","n"," ","a","t","t","r","i","b","u","t","e"," ","f","o","r"," ","i","m","a","g","e"," ">>
\* format string of the device read error (line 99)
FmtBlockDevice ==
    <<"c","o","u","l","d"," ","n","o","t"," ","g","e","t"," ","i","m","a","g","e"," ","b","l","o","c","k"," ","d","e","v","i","c","e"," ","m","a","p","p","i","n","g"," ","a","t","t","r","i","b","u","t","e"," ","f","o","r"," ","i","m","a","g","e"," ">>
\* the separator between %s and %v in both read errors
FmtColon ==
    <<":"," ">>
\* format string of the snapshot update error (line 149)
FmtModify ==
    <<"c","o","u","l","d"," ","n","o","t"," ","m","o","d","i","f","y"," ","s","n","a","p","s","h","o","t"," ","a","t","t","r","i","b","u","t","e","s",":"," ">>
\* message of the error of line 127
MsgNoSnapshotDevices ==
    <<"D","i","d"," ","n","o","t"," ","f","i","n","d"," ","a","n","y"," ","d","e","v","i","c","e","s"," ","w","i","t","h"," ","E","B","S"," ","s","n","a","p","s","h","o","t","s">>
\* progress line of line 72
SayAmiId ==
    <<"A","M","I"," ","I","D",":"," ">>
\* progress line of line 90
SayPermissions ==
    <<"A","M","I"," ","p","e","r","m","i","s","s","i","o","n","s",":"," ">>
\* progress line of line 113
SayChecking ==
    <<"C","h","e","c","k","i","n","g"," ","d","e","v","i","c","e"," ">>
\* progress line of line 134
SaySnapshotId ==
    <<"S","n","a","p","s","h","o","t"," ","I","D",":"," ">>
\* progress line of line 141
SaySnapshotPermissions ==
    <<"S","n","a","p","s","h","o","t"," ","P","e","r","m","i","s","s","i","o","n","s",":"," ">>
\* the literal prefix of the pattern of line 66
AmiPrefix ==
    <<"a","m","i","-">>

\* the character class [a-z0-9] of the pattern of line 66
LowerAlnum ==
    {"a","b","c","d","e","f","g","h","i","j","k","l","m","n","o","p","q","r","s","t","u","v","w","x","y","z","0","1","2","3","4","5","6","7","8","9"}

\* the artifact id of the doc comment of PostProcess (line 61)
ExampleArtifactId ==
    <<"a","p","-","s","o","u","t","h","e","a","s","t","-","2",":","a","m","i","-","4","f","8","f","a","e","2","c">>
\* an artifact id that holds no AMI id
NoAmiArtifactId ==
    <<"u","s","-","e","a","s","t","-","1",":","i","-","1","2","3","4","5">>
\* what artifact.String() returns (line 64)
ArtifactString ==
    <<"A","M","I","s"," ","w","e","r","e"," ","c","r","e","a","t","e","d">>
\* snapshot ids of the account
Snap111 ==
    <<"s","n","a","p","-","1","1","1">>
Snap222 ==
    <<"s","n","a","p","-","2","2","2">>
\* principals
GroupAll ==
    <<"a","l","l">>
User111 ==
    <<"1","1","1","1","2","2","2","2","3","3","3","3">>
User999 ==
    <<"9","9","9","9","8","8","8","8","7","7","7","7">>
\* errors the remote calls can return
AuthFailure ==
    <<"A","u","t","h","F","a","i","l","u","r","e">>
RequestLimitExceeded ==
    <<"R","e","q","u","e","s","t","L","i","m","i","t","E","x","c","e","e","d","e","d">>
NoCredentialProviders ==
    <<"N","o","C","r","e","d","e","n","t","i","a","l","P","r","o","v","i","d","e","r","s">>
\* device names
DevSda1 ==
    <<"/","d","e","v","/","s","d","a","1">>
DevSdb ==
    <<"/","d","e","v","/","s","d","b">>

\* s occurs in t as a contiguous substring
Contains(t, s) ==
    \E p \in 1..(Len(t) - Len(s) + 1) : SubSeq(t, p, p + Len(s) - 1) = s

\* t starts with s
HasPrefix(t, s) ==
    Len(s) <= Len(t) /\ SubSeq(t, 1, Len(s)) = s

\* aws.String: a pointer to the string
String(s) ==
    <<s>>

\* aws.StringValue: the string pointed to, "" for nil
StringValue(p) ==
    IF p = <<>> THEN <<>> ELSE p[1]

---------------------------------------------------------------------------
(* regexp "ami-[a-z0-9]+", FindString: the leftmost match, "+" greedy; the *)
(* empty string when nothing matches.                                      *)

\* the last position of the run of [a-z0-9] that holds position q
RECURSIVE ExtendMatch(_, _)
ExtendMatch(s, q) ==
    IF q < Len(s) /\ s[q + 1] \in LowerAlnum THEN ExtendMatch(s, q + 1) ELSE q

\* where the match that starts at p ends, 0 when none starts there
MatchEnd(s, p) ==
    IF /\ p + 4 <= Len(s)
       /\ SubSeq(s, p, p + 3) = AmiPrefix
       /\ s[p + 4] \in LowerAlnum
    THEN ExtendMatch(s, p + 4)
    ELSE 0

RECURSIVE FindFrom(_, _)
FindFrom(s, p) ==
    IF p > Len(s) THEN <<>>
    ELSE IF MatchEnd(s, p) > 0 THEN SubSeq(s, p, MatchEnd(s, p))
    ELSE FindFrom(s, p + 1)

\* a FindString whose "+" is not greedy: the shortest match
FindStringShortest(s) ==
    IF FindFrom(s, 1) = <<>> THEN <<>> ELSE SubSeq(FindFrom(s, 1), 1, 5)

FindString(s) ==
    FindFrom(s, 1)

---------------------------------------------------------------------------
(* The data of EC2.                                                        *)

\* all tuples over S of length at most n
SeqsUpTo(S, n) ==
    UNION {[1..k -> S] : k \in 0..n}

\* ec2.LaunchPermission: Group and UserId are *string
LaunchPermission(group, userId) ==
    [Group |-> group, UserId |-> userId]

LaunchPermissionValues ==
    {LaunchPermission(String(GroupAll), <<>>),
     LaunchPermission(<<>>, String(User111)),
     LaunchPermission(String(GroupAll), String(User111))}

\* ec2.BlockDeviceMapping: Ebs is *EbsBlockDevice, SnapshotId is *string
BlockDeviceMapping(name, ebs) ==
    [DeviceName |-> String(name), Ebs |-> ebs]

EbsBlockDevice(snapshotId) ==
    <<[SnapshotId |-> snapshotId]>>

BlockDeviceMappingValues ==
    {BlockDeviceMapping(DevSda1, EbsBlockDevice(String(Snap111))),
     BlockDeviceMapping(DevSda1, EbsBlockDevice(String(Snap222))),
     BlockDeviceMapping(DevSda1, EbsBlockDevice(String(<<>>))),
     BlockDeviceMapping(DevSdb, EbsBlockDevice(<<>>)),
     BlockDeviceMapping(DevSdb, <<>>)}

\* DescribeImages is asked for one image id (line 96): no image or one
ImagesValues ==
    {<<>>} \cup {<<[BlockDeviceMappings |-> d]>> :
                    d \in SeqsUpTo(BlockDeviceMappingValues, MaxDevices)}

\* the snapshots of the account
SnapshotIds ==
    {Snap111, Snap222}

\* a create-volume permission a snapshot may hold before the run
ExistingPermission ==
    [Group |-> <<>>, UserId |-> String(User999)]

\* what a snapshot may hold before the run: nothing, or a grant to another
\* account and the grant to the group
InitialPermissions ==
    {{}, {ExistingPermission, [Group |-> String(GroupAll), UserId |-> <<>>]}}

\* the errors an EC2 call may return, and those of the credential chain
Causes ==
    {AuthFailure, RequestLimitExceeded}

ConfigCauses ==
    {NoCredentialProviders}

\* artifact ids: a core, with text before and after it
AffixAlphabet ==
    {"a", "-", ":", "4", "F"}

Cores ==
    {<<>>,
     <<"a","m","i","-">>,
     <<"a","m","i","-","4","f">>,
     <<"a","m","i","-","a","m","i","-","4">>,
     <<"a","m","i","-","4","f",":","a","m","i","-","8">>,
     <<"a","m","i","-","F","a","m","i","-","8">>,
     <<"A","M","I","-","4","f">>,
     <<"i","-","1","2">>}

ParseArtifactIds ==
    {pre \o core \o post :
        pre \in SeqsUpTo(AffixAlphabet, MaxAffix),
        core \in Cores,
        post \in SeqsUpTo(AffixAlphabet, MaxAffix)}

\* the image of the example: one snapshot device, one device without Ebs
ExampleImages ==
    <<[BlockDeviceMappings |->
        <<BlockDeviceMapping(DevSda1, EbsBlockDevice(String(Snap111))),
          BlockDeviceMapping(DevSdb, <<>>)>>]>>

ExampleLaunchPermissions ==
    <<LaunchPermission(String(GroupAll), <<>>)>>

---------------------------------------------------------------------------
(* The initial states.                                                     *)

Locals ==
    /\ pc = "PostProcess"
    /\ amiID = <<>>
    /\ amiPermissions = <<>>
    /\ images = <<>>
    /\ deviceIdx = 1
    /\ foundSnapshotDevice = FALSE
    /\ calls = <<>>
    /\ said = <<>>
    /\ result = <<>>

\* every image, two artifact ids
Init ==
    /\ artifact \in {[Id |-> id, String |-> ArtifactString] :
                        id \in {ExampleArtifactId, NoAmiArtifactId}}
    /\ awsLaunchPermissions \in SeqsUpTo(LaunchPermissionValues, MaxPerms)
    /\ awsImages \in ImagesValues
    /\ awsSnapshots \in [SnapshotIds -> InitialPermissions]
    /\ awsSnapshots0 = awsSnapshots
    /\ Locals

\* every artifact id, the image of the example
InitParse ==
    /\ artifact \in {[Id |-> id, String |-> ArtifactString] :
                        id \in ParseArtifactIds}
    /\ awsLaunchPermissions = ExampleLaunchPermissions
    /\ awsImages = ExampleImages
    /\ awsSnapshots = [s \in SnapshotIds |-> {}]
    /\ awsSnapshots0 = awsSnapshots
    /\ Locals

---------------------------------------------------------------------------
(* Errors, requests and results.                                           *)

\* the parse error without the artifact id
ParseErrorWithoutId(id) ==
    <<FmtNoAmiId \o FmtQuote>>

\* fmt.Errorf of line 69; an error is <<message>>, nil is <<>>
ParseError(id) ==
    <<FmtNoAmiId \o id \o FmtQuote>>

\* fmt.Errorf of line 76
ConfigError(cause) ==
    <<FmtConfig \o cause>>

\* the error of line 87 without the image id
LaunchPermissionErrorWithoutId(id, cause) ==
    <<FmtLaunchPermission \o FmtColon \o cause>>

\* fmt.Errorf of line 87
LaunchPermissionError(id, cause) ==
    <<FmtLaunchPermission \o id \o FmtColon \o cause>>

\* fmt.Errorf of line 99
BlockDeviceError(id, cause) ==
    <<FmtBlockDevice \o id \o FmtColon \o cause>>

\* fmt.Errorf of line 149: the cause alone is formatted
ModifyError(snapshotID, cause) ==
    <<FmtModify \o cause>>

\* errors.New of line 127
NoSnapshotDevicesError ==
    <<MsgNoSnapshotDevices>>

\* the return statements of PostProcess
Return(ok, err) ==
    <<[artifact |-> artifact, ok |-> ok, err |-> err]>>

\* a failure that reports the artifact as processed
FailProcessed(err) ==
    Return(TRUE, err)

\* return artifact, false, err (lines 69, 76, 87, 99, 103)
Fail(err) ==
    Return(FALSE, err)

\* ec2.DescribeImageAttributeInput of lines 82-85
DescribeImageAttributeInput(id) ==
    [op |-> "DescribeImageAttribute", Attribute |-> "launchPermission",
     ImageId |-> id, SnapshotId |-> <<>>, Add |-> <<>>, Remove |-> <<>>]

\* ec2.DescribeImagesInput of lines 95-97
DescribeImagesInput(id) ==
    [op |-> "DescribeImages", Attribute |-> "",
     ImageId |-> id, SnapshotId |-> <<>>, Add |-> <<>>, Remove |-> <<>>]

\* a request that sets Remove where the code sets Add
ModifySnapshotAttributeInputRemove(snapshotID, snapshotPermissions) ==
    [op |-> "ModifySnapshotAttribute", Attribute |-> "",
     ImageId |-> <<>>, SnapshotId |-> snapshotID,
     Add |-> <<>>, Remove |-> snapshotPermissions]

\* ec2.ModifySnapshotAttributeInput of lines 143-147: Add alone is set
ModifySnapshotAttributeInput(snapshotID, snapshotPermissions) ==
    [op |-> "ModifySnapshotAttribute", Attribute |-> "",
     ImageId |-> <<>>, SnapshotId |-> snapshotID,
     Add |-> snapshotPermissions, Remove |-> <<>>]

\* a request as the history keeps it: err is <<>> or <<cause>>, device the
\* position of the device it was issued for (0 for the reads)
Issued(request, err, device) ==
    [request |-> request, err |-> err, device |-> device]

\* a line of ui.Say: its text and, for a %v of a permission list, the list
Say(text) ==
    [text |-> text, values |-> <<>>]

SayValues(text, values) ==
    [text |-> text, values |-> values]

Range(f) ==
    {f[i] : i \in DOMAIN f}

\* EC2's ModifySnapshotAttribute on the create-volume permissions of a
\* snapshot: the Remove entries leave the set, the Add entries join it
ModifiedPermissions(current, request) ==
    (current \ Range(request.Remove)) \cup Range(request.Add)

\* a translation that copies Group and leaves UserId nil
CreateVolumePermissionsGroupOnly(perms) ==
    [i \in 1..Len(perms) |-> [Group |-> perms[i].Group, UserId |-> <<>>]]

\* the loop of lines 136-139: one ec2.CreateVolumePermission per launch
\* permission, Group and UserId copied
CreateVolumePermissions(perms) ==
    [i \in 1..Len(perms) |-> [Group |-> perms[i].Group, UserId |-> perms[i].UserId]]

\* the devices the loops of lines 111-112 visit, in their order
RECURSIVE BlockDeviceMappings(_)
BlockDeviceMappings(imgs) ==
    IF imgs = <<>> THEN <<>>
    ELSE Head(imgs).BlockDeviceMappings \o BlockDeviceMappings(Tail(imgs))

\* a test of line 114 alone
HasEbs(device) ==
    device.Ebs # <<>>

\* the tests of lines 114-115
HasSnapshot(device) ==
    device.Ebs # <<>> /\ device.Ebs[1].SnapshotId # <<>>

\* line 117
SnapshotIdOf(device) ==
    StringValue(device.Ebs[1].SnapshotId)

---------------------------------------------------------------------------
(* PostProcess, one action per step between two remote calls.              *)

\* lines 64-72: say the artifact, find the AMI id, fail when there is none
ParseAmiID ==
    /\ pc = "PostProcess"
    /\ amiID' = FindString(artifact.Id)
    /\ IF amiID' = <<>>
       THEN /\ said' = Append(said, Say(artifact.String))
            /\ result' = Fail(ParseError(artifact.Id))
            /\ pc' = "done"
       ELSE /\ said' = said \o <<Say(artifact.String), Say(SayAmiId \o amiID')>>
            /\ result' = result
            /\ pc' = "Config"
    /\ UNCHANGED <<artifact, awsLaunchPermissions, awsImages, awsSnapshots,
                   awsSnapshots0, amiPermissions, images, deviceIdx,
                   foundSnapshotDevice, calls>>

\* lines 74-80: the AWS config, session and client are made
ConfigOk ==
    /\ pc = "Config"
    /\ pc' = "DescribeImageAttribute"
    /\ UNCHANGED <<artifact, awsLaunchPermissions, awsImages, awsSnapshots,
                   awsSnapshots0, amiID, amiPermissions, images, deviceIdx,
                   foundSnapshotDevice, calls, said, result>>

\* lines 74-77: the AWS config cannot be made
ConfigFail ==
    /\ pc = "Config"
    /\ \E cause \in ConfigCauses : result' = Fail(ConfigError(cause))
    /\ pc' = "done"
    /\ UNCHANGED <<artifact, awsLaunchPermissions, awsImages, awsSnapshots,
                   awsSnapshots0, amiID, amiPermissions, images, deviceIdx,
                   foundSnapshotDevice, calls, said>>

\* lines 82-90, the call returns the launch permissions
DescribeImageAttributeOk ==
    /\ pc = "DescribeImageAttribute"
    /\ calls' = Append(calls, Issued(DescribeImageAttributeInput(amiID), <<>>, 0))
    /\ amiPermissions' = awsLaunchPermissions
    /\ said' = Append(said, SayValues(SayPermissions, amiPermissions'))
    /\ pc' = "DescribeImages"
    /\ UNCHANGED <<artifact, awsLaunchPermissions, awsImages, awsSnapshots,
                   awsSnapshots0, amiID, images, deviceIdx,
                   foundSnapshotDevice, result>>

\* lines 82-88, the call returns an error
DescribeImageAttributeFail ==
    /\ pc = "DescribeImageAttribute"
    /\ \E cause \in Causes :
          /\ calls' = Append(calls,
                 Issued(DescribeImageAttributeInput(amiID), <<cause>>, 0))
          /\ result' = Fail(LaunchPermissionError(amiID, cause))
    /\ pc' = "done"
    /\ UNCHANGED <<artifact, awsLaunchPermissions, awsImages, awsSnapshots,
                   awsSnapshots0, amiID, amiPermissions, images, deviceIdx,
                   foundSnapshotDevice, said>>

\* lines 95-102, the call returns the images; fixSnapshotsForImages starts
DescribeImagesOk ==
    /\ pc = "DescribeImages"
    /\ calls' = Append(calls, Issued(DescribeImagesInput(amiID), <<>>, 0))
    /\ images' = awsImages
    /\ deviceIdx' = 1
    /\ foundSnapshotDevice' = FALSE
    /\ pc' = "fixSnapshotsForImages"
    /\ UNCHANGED <<artifact, awsLaunchPermissions, awsImages, awsSnapshots,
                   awsSnapshots0, amiID, amiPermissions, said, result>>

\* lines 95-100, the call returns an error
DescribeImagesFail ==
    /\ pc = "DescribeImages"
    /\ \E cause \in Causes :
          /\ calls' = Append(calls, Issued(DescribeImagesInput(amiID), <<cause>>, 0))
          /\ result' = Fail(BlockDeviceError(amiID, cause))
    /\ pc' = "done"
    /\ UNCHANGED <<artifact, awsLaunchPermissions, awsImages, awsSnapshots,
                   awsSnapshots0, amiID, amiPermissions, images, deviceIdx,
                   foundSnapshotDevice, said>>

\* the device the loops of lines 111-112 are at
Device ==
    BlockDeviceMappings(images)[deviceIdx]

AtDevice ==
    /\ pc = "fixSnapshotsForImages"
    /\ deviceIdx <= Len(BlockDeviceMappings(images))

\* lines 113-115: a device without Ebs or without SnapshotId is passed over
SkipDevice ==
    /\ AtDevice
    /\ ~HasSnapshot(Device)
    /\ said' = Append(said, Say(SayChecking \o StringValue(Device.DeviceName)))
    /\ deviceIdx' = deviceIdx + 1
    /\ UNCHANGED <<artifact, awsLaunchPermissions, awsImages, awsSnapshots,
                   awsSnapshots0, pc, amiID, amiPermissions, images,
                   foundSnapshotDevice, calls, result>>

\* the lines said for a snapshot device: lines 113, 134 and 141
SaidForSnapshot ==
    <<Say(SayChecking \o StringValue(Device.DeviceName)),
      Say(SaySnapshotId \o SnapshotIdOf(Device)),
      SayValues(SaySnapshotPermissions, CreateVolumePermissions(amiPermissions))>>

\* a successful update that leaves the loop on the same device, so that
\* the device is updated again
FixSnapshotPermissionsOkAgain ==
    /\ AtDevice
    /\ HasSnapshot(Device)
    /\ SnapshotIdOf(Device) \in DOMAIN awsSnapshots
    /\ Len(calls) < 6
    /\ foundSnapshotDevice' = TRUE
    /\ said' = said \o SaidForSnapshot
    /\ LET request == ModifySnapshotAttributeInput(SnapshotIdOf(Device),
                          CreateVolumePermissions(amiPermissions))
       IN  /\ calls' = Append(calls, Issued(request, <<>>, deviceIdx))
           /\ awsSnapshots' =
                 [awsSnapshots EXCEPT ![request.SnapshotId] =
                     ModifiedPermissions(@, request)]
    /\ UNCHANGED <<artifact, awsLaunchPermissions, awsImages, awsSnapshots0,
                   pc, amiID, amiPermissions, images, deviceIdx, result>>

\* lines 113-121 and 133-152 for a snapshot device, the update succeeds:
\* EC2 changes the snapshot's permissions and the loop goes on
FixSnapshotPermissionsOk ==
    /\ AtDevice
    /\ HasSnapshot(Device)
    /\ SnapshotIdOf(Device) \in DOMAIN awsSnapshots
    /\ foundSnapshotDevice' = TRUE
    /\ said' = said \o SaidForSnapshot
    /\ LET request == ModifySnapshotAttributeInput(SnapshotIdOf(Device),
                          CreateVolumePermissions(amiPermissions))
       IN  /\ calls' = Append(calls, Issued(request, <<>>, deviceIdx))
           /\ awsSnapshots' =
                 [awsSnapshots EXCEPT ![request.SnapshotId] =
                     ModifiedPermissions(@, request)]
    /\ deviceIdx' = deviceIdx + 1
    /\ UNCHANGED <<artifact, awsLaunchPermissions, awsImages, awsSnapshots0,
                   pc, amiID, amiPermissions, images, result>>

\* lines 113-119, 133-150 and 102-104 for a snapshot device, the update
\* fails: EC2 changes nothing and PostProcess returns the error
FixSnapshotPermissionsFail ==
    /\ AtDevice
    /\ HasSnapshot(Device)
    /\ foundSnapshotDevice' = TRUE
    /\ said' = said \o SaidForSnapshot
    /\ \E cause \in Causes :
          /\ calls' = Append(calls,
                 Issued(ModifySnapshotAttributeInput(SnapshotIdOf(Device),
                            CreateVolumePermissions(amiPermissions)),
                        <<cause>>, deviceIdx))
          /\ result' = Fail(ModifyError(SnapshotIdOf(Device), cause))
    /\ pc' = "done"
    /\ UNCHANGED <<artifact, awsLaunchPermissions, awsImages, awsSnapshots,
                   awsSnapshots0, amiID, amiPermissions, images, deviceIdx>>

\* an end of the loops without the test of line 126
FixSnapshotsDoneUnchecked ==
    /\ pc = "fixSnapshotsForImages"
    /\ deviceIdx > Len(BlockDeviceMappings(images))
    /\ result' = Return(TRUE, <<>>)
    /\ pc' = "done"
    /\ UNCHANGED <<artifact, awsLaunchPermissions, awsImages, awsSnapshots,
                   awsSnapshots0, amiID, amiPermissions, images, deviceIdx,
                   foundSnapshotDevice, calls, said>>

\* lines 126-130 and 102-106: the loops are over
FixSnapshotsDone ==
    /\ pc = "fixSnapshotsForImages"
    /\ deviceIdx > Len(BlockDeviceMappings(images))
    /\ result' = IF ~foundSnapshotDevice
                 THEN Fail(NoSnapshotDevicesError)
                 ELSE Return(TRUE, <<>>)
    /\ pc' = "done"
    /\ UNCHANGED <<artifact, awsLaunchPermissions, awsImages, awsSnapshots,
                   awsSnapshots0, amiID, amiPermissions, images, deviceIdx,
                   foundSnapshotDevice, calls, said>>

Next ==
    \/ ParseAmiID
    \/ ConfigOk
    \/ ConfigFail
    \/ DescribeImageAttributeOk
    \/ DescribeImageAttributeFail
    \/ DescribeImagesOk
    \/ DescribeImagesFail
    \/ SkipDevice
    \/ FixSnapshotPermissionsOk
    \/ FixSnapshotPermissionsFail
    \/ FixSnapshotsDone

\* a run on any image
Spec ==
    Init /\ [][Next]_vars

\* a run on any artifact id
SpecParse ==
    InitParse /\ [][Next]_vars

---------------------------------------------------------------------------
(* What the properties speak of.                                           *)

Done ==
    pc = "done"

\* what PostProcess returned
Returned ==
    result[1]

\* the devices EC2 holds for the image, in the order it returns them
FetchedDevices ==
    BlockDeviceMappings(awsImages)

\* a device backed by a snapshot: it has an Ebs block that names a snapshot id
SnapshotBacked(device) ==
    device.Ebs # <<>> /\ device.Ebs[1].SnapshotId # <<>>

\* the positions of the snapshot-backed devices, in device order
Targets ==
    SelectSeq([i \in 1..Len(FetchedDevices) |-> i],
              LAMBDA i : SnapshotBacked(FetchedDevices[i]))

IsRead(c) ==
    c.request.op \in {"DescribeImageAttribute", "DescribeImages"}

IsUpdate(c) ==
    c.request.op = "ModifySnapshotAttribute"

\* the modify-snapshot-attribute calls issued so far, in order
Updates ==
    SelectSeq(calls, IsUpdate)

Failed(c) ==
    c.err # <<>>

BothReadsSucceeded ==
    /\ Len(calls) >= 2
    /\ calls[1].request.op = "DescribeImageAttribute" /\ ~Failed(calls[1])
    /\ calls[2].request.op = "DescribeImages" /\ ~Failed(calls[2])

NoUpdateFailed ==
    \A i \in DOMAIN Updates : ~Failed(Updates[i])

\* t is 'ami-' followed by one or more lowercase alphanumeric characters
IsAmiId(t) ==
    /\ Len(t) >= 5
    /\ SubSeq(t, 1, 4) = AmiPrefix
    /\ \A i \in 5..Len(t) : t[i] \in LowerAlnum

\* where such substrings lie in s: <<first position, last position>>
Occurrences(s) ==
    {o \in (1..Len(s)) \X (1..Len(s)) :
        o[1] <= o[2] /\ IsAmiId(SubSeq(s, o[1], o[2]))}

\* the leftmost occurrence, and of those that start there the longest
FirstOccurrence(s) ==
    CHOOSE o \in Occurrences(s) :
        \A o2 \in Occurrences(s) :
            o[1] < o2[1] \/ (o[1] = o2[1] /\ o[2] >= o2[2])

---------------------------------------------------------------------------
(* The properties.                                                         *)

\* C1: in a finished run in which both reads succeeded and no update call
\* failed, the updates issued are exactly one per snapshot-backed device of
\* the fetched device list, in device order, and the Add list of each has
\* as many entries as the launch-permission list, the i-th with the UserId
\* and Group of the i-th launch permission.
C1_OneUpdatePerSnapshotDevice ==
    (Done /\ BothReadsSucceeded /\ NoUpdateFailed) =>
        /\ Len(Updates) = Len(Targets)
        /\ \A j \in DOMAIN Updates :
              /\ Updates[j].device = Targets[j]
              /\ Updates[j].request.SnapshotId =
                    StringValue(FetchedDevices[Targets[j]].Ebs[1].SnapshotId)
              /\ Len(Updates[j].request.Add) = Len(awsLaunchPermissions)
              /\ \A i \in DOMAIN awsLaunchPermissions :
                    /\ Updates[j].request.Add[i].UserId = awsLaunchPermissions[i].UserId
                    /\ Updates[j].request.Add[i].Group = awsLaunchPermissions[i].Group

\* two snapshot devices and two equal launch permissions: two updates, each
\* with both entries
C1_Witness ==
    /\ Done /\ BothReadsSucceeded /\ NoUpdateFailed
    /\ Len(Targets) = 2
    /\ Len(Updates) = 2
    /\ Len(awsLaunchPermissions) = 2
    /\ awsLaunchPermissions[1] = awsLaunchPermissions[2]
    /\ awsLaunchPermissions[1].UserId # <<>>

\* the last request issued
LastCall ==
    calls[Len(calls)]

\* the run ended on a failed update
UpdateFailed ==
    Done /\ calls # <<>> /\ IsUpdate(LastCall) /\ Failed(LastCall)

\* the updates before the failed one succeeded, the failed one is the one
\* of the next target, nothing was issued after it, and what the earlier
\* updates added is still on their snapshots
C2_EarlierUpdatesKept ==
    UpdateFailed =>
        LET k == Len(Updates)
        IN  /\ k <= Len(Targets)
            /\ LastCall.device = Targets[k]
            /\ \A j \in 1..(k - 1) :
                  /\ ~Failed(Updates[j])
                  /\ Updates[j].device = Targets[j]
                  /\ Range(Updates[j].request.Add) \subseteq
                        awsSnapshots[Updates[j].request.SnapshotId]

\* C2: when the update of the k-th snapshot target is the first to fail,
\* k-1 updates have succeeded, no update is attempted for a later target,
\* what was added to the first k-1 snapshots stays, and the error the run
\* returns identifies the k-th snapshot's id.
C2_FailedUpdateNamesSnapshot ==
    UpdateFailed =>
        /\ C2_EarlierUpdatesKept
        /\ Returned.err # <<>>
        /\ Contains(Returned.err[1], LastCall.request.SnapshotId)

\* C3: when both reads succeeded and no fetched device is snapshot-backed
\* (no image, an image without devices, or devices without a snapshot id),
\* no update is ever issued and the run ends with the no-snapshot-devices
\* error.
C3_NoSnapshotDevicesError ==
    (BothReadsSucceeded /\ Len(Targets) = 0) =>
        /\ Updates = <<>>
        /\ Done => /\ Returned.ok = FALSE
                   /\ Returned.err = <<MsgNoSnapshotDevices>>

\* an image with two devices, neither with a snapshot id
C3_Witness ==
    /\ Done /\ BothReadsSucceeded
    /\ Len(FetchedDevices) = 2
    /\ Len(Targets) = 0
    /\ FetchedDevices[1].Ebs # <<>>
    /\ FetchedDevices[2].Ebs = <<>>

\* the same with no image at all
C3_WitnessNoImage ==
    Done /\ BothReadsSucceeded /\ awsImages = <<>>

\* the image id of the artifact id: its first occurrence of an AMI id
FirstAmiId ==
    SubSeq(artifact.Id, FirstOccurrence(artifact.Id)[1],
           FirstOccurrence(artifact.Id)[2])

\* C4: when the artifact id holds a substring 'ami-' followed by lowercase
\* alphanumeric characters, the id parsed, and the id both reads are issued
\* with, is the leftmost such substring, extended as far as it goes,
\* whatever stands before and after it.
C4_ReadsUseFirstAmiId ==
    Occurrences(artifact.Id) # {} =>
        /\ pc # "PostProcess" => amiID = FirstAmiId
        /\ \A i \in DOMAIN calls :
              IsRead(calls[i]) => calls[i].request.ImageId = FirstAmiId

\* both reads issued for an artifact id with text before the first AMI id,
\* text after it, and a second AMI id further right
C4_Witness ==
    /\ BothReadsSucceeded
    /\ Occurrences(artifact.Id) # {}
    /\ FirstOccurrence(artifact.Id)[1] > 1
    /\ FirstOccurrence(artifact.Id)[2] < Len(artifact.Id)
    /\ Len(FirstAmiId) > 5
    /\ \E o \in Occurrences(artifact.Id) : o[1] > FirstOccurrence(artifact.Id)[2]

\* C5: when the artifact id holds no such substring, the run fails at once
\* with the parse error, whose message holds the artifact id verbatim, and
\* no remote call is ever issued.
C5_ParseErrorHoldsArtifactId ==
    Occurrences(artifact.Id) = {} =>
        /\ calls = <<>>
        /\ pc \in {"PostProcess", "done"}
        /\ Done => /\ Returned.ok = FALSE
                   /\ Returned.err # <<>>
                   /\ HasPrefix(Returned.err[1], FmtNoAmiId)
                   /\ Contains(Returned.err[1], artifact.Id)

\* a failed parse of an artifact id that holds 'ami-' but nothing after it
\* that the pattern accepts
C5_Witness ==
    /\ Done
    /\ Occurrences(artifact.Id) = {}
    /\ Contains(artifact.Id, AmiPrefix)
    /\ Len(artifact.Id) > 5

\* C6: when a read fails the run ends there: the failed read is the last
\* call, the run returns an error that holds the image id and the cause,
\* no update is issued, and after a failed launch-permission read the
\* device read is not issued.
C6_FailedReadAborts ==
    \A i \in DOMAIN calls :
        (IsRead(calls[i]) /\ Failed(calls[i])) =>
            /\ i = Len(calls)
            /\ Done
            /\ Returned.ok = FALSE
            /\ Returned.err # <<>>
            /\ Contains(Returned.err[1], calls[i].request.ImageId)
            /\ Contains(Returned.err[1], calls[i].err[1])
            /\ calls[i].request.ImageId = amiID /\ amiID # <<>>
            /\ Updates = <<>>
            /\ calls[i].request.op = "DescribeImageAttribute" => Len(calls) = 1

\* the launch-permission read failed
C6_Witness ==
    /\ Done
    /\ Len(calls) = 1
    /\ calls[1].request.op = "DescribeImageAttribute"
    /\ Failed(calls[1])

\* the device read failed
C6_WitnessDevices ==
    /\ Done
    /\ Len(calls) = 2
    /\ calls[2].request.op = "DescribeImages"
    /\ Failed(calls[2])

\* C7: in every state of a run, failed runs included, each snapshot holds
\* every create-volume permission it held when the run started, and every
\* update issued is an Add with nothing to remove.
C7_AdditiveOnly ==
    /\ \A s \in SnapshotIds : awsSnapshots0[s] \subseteq awsSnapshots[s]
    /\ \A i \in DOMAIN calls :
          IsUpdate(calls[i]) => calls[i].request.Remove = <<>>

\* a run that failed after it extended a snapshot that already held grants,
\* one of them among those added
C7_Witness ==
    /\ UpdateFailed
    /\ \E s \in SnapshotIds :
          /\ awsSnapshots0[s] # {}
          /\ awsSnapshots[s] # awsSnapshots0[s]
          /\ \E i \in DOMAIN Updates :
                /\ Updates[i].request.SnapshotId = s
                /\ ~Failed(Updates[i])
                /\ Range(Updates[i].request.Add) \cap awsSnapshots0[s] # {}

\* every step of the run succeeded and a snapshot device was found
AllSucceeded ==
    /\ Occurrences(artifact.Id) # {}
    /\ BothReadsSucceeded
    /\ NoUpdateFailed
    /\ Len(Updates) = Len(Targets)
    /\ Len(Targets) >= 1

\* C8: nothing is returned before the run ends; the run returns the input
\* artifact in every outcome, the flag is true exactly when no error is
\* returned, and that is exactly when parsing, session creation, both
\* reads and every update succeeded and a snapshot device was found.
C8_TerminalResult ==
    /\ ~Done => result = <<>>
    /\ Done => /\ Len(result) = 1
               /\ Returned.artifact = artifact
               /\ Returned.ok <=> Returned.err = <<>>
               /\ Returned.ok <=> AllSucceeded

\* a run that succeeded
C8_Witness ==
    Done /\ Returned.ok /\ Len(Updates) >= 1

\* a run that failed when the session was made
C8_WitnessConfig ==
    /\ Done /\ ~Returned.ok /\ calls = <<>>
    /\ Occurrences(artifact.Id) # {}

\* C9: the first call is the launch-permission read, the second the device
\* read, every later call an update; a call is issued only after the parse
\* and after every call before it succeeded; each read is issued at most
\* once and each device gets at most one update, in device order.
C9_CallOrder ==
    /\ calls # <<>> => pc # "PostProcess" /\ amiID # <<>>
    /\ \A i \in DOMAIN calls :
          /\ i = 1 <=> calls[i].request.op = "DescribeImageAttribute"
          /\ i = 2 <=> calls[i].request.op = "DescribeImages"
          /\ i >= 3 <=> IsUpdate(calls[i])
          /\ \A h \in 1..(i - 1) : ~Failed(calls[h])
    /\ \A i, j \in DOMAIN Updates : i < j => Updates[i].device < Updates[j].device

\* two updates after the two reads
C9_Witness ==
    /\ Len(calls) = 4
    /\ IsUpdate(calls[3]) /\ IsUpdate(calls[4])
    /\ calls[3].request.SnapshotId # calls[4].request.SnapshotId


\* the devices the scan has dealt with: those before the loop position, and
\* the one at it when the run ended on its update
Scanned ==
    IF ~BothReadsSucceeded
    THEN {}
    ELSE {i \in DOMAIN FetchedDevices : i < deviceIdx \/ (UpdateFailed /\ i = deviceIdx)}

\* a device with a snapshot id that is not the empty string
NonEmptySnapshotId(device) ==
    /\ device.Ebs # <<>>
    /\ StringValue(device.Ebs[1].SnapshotId) # <<>>

\* C10 as claimed: a device gets an update, and counts as a snapshot device,
\* if and only if its snapshot id is non-empty: a device without Ebs,
\* without a snapshot id or with the empty string as snapshot id gets no
\* update and does not count, and the scan goes on past it.
C10_NonEmptySnapshotIdOnly ==
    /\ \A i \in Scanned :
          NonEmptySnapshotId(FetchedDevices[i]) <=>
              \E j \in DOMAIN Updates : Updates[j].device = i
    /\ BothReadsSucceeded =>
          (foundSnapshotDevice <=>
              \E i \in Scanned : NonEmptySnapshotId(FetchedDevices[i]))

\* C10 as the code has it: a device gets an update, and counts as a
\* snapshot device, if and only if it has an Ebs block whose snapshot id is
\* present, the empty string included; a device without Ebs or without a
\* snapshot id gets none and does not count, and the scan goes on past it:
\* a run that ends without a failed call has scanned every device.
C10_PresentSnapshotIdOnly ==
    /\ \A i \in Scanned :
          SnapshotBacked(FetchedDevices[i]) <=>
              \E j \in DOMAIN Updates : Updates[j].device = i
    /\ BothReadsSucceeded =>
          (foundSnapshotDevice <=>
              \E i \in Scanned : SnapshotBacked(FetchedDevices[i]))
    /\ (Done /\ BothReadsSucceeded /\ NoUpdateFailed) =>
          Scanned = DOMAIN FetchedDevices
    /\ (Done /\ Returned.err = <<MsgNoSnapshotDevices>>) => Len(Targets) = 0

\* a device without a snapshot id was passed over and the device after it,
\* whose snapshot id is the empty string, got an update
C10_Witness ==
    /\ Done
    /\ Len(FetchedDevices) = 2
    /\ FetchedDevices[1].Ebs # <<>> /\ FetchedDevices[1].Ebs[1].SnapshotId = <<>>
    /\ FetchedDevices[2].Ebs # <<>> /\ FetchedDevices[2].Ebs[1].SnapshotId = <<<<>>>>
    /\ Len(Updates) = 1
    /\ Updates[1].device = 2
    /\ Updates[1].request.SnapshotId = <<>>
    /\ foundSnapshotDevice
=============================================================================
